---- MODULE Spec2Model ----
(***************************************************************************)
(* The queue of queue.c: a circular doubly-linked list of string elements  *)
(* anchored at a sentinel list_head.  Pointers are numbers: NULL is 0, the *)
(* elements are 1..MaxElems and the sentinel is MaxElems + 1.  An element  *)
(* and its embedded list_head share one number (list_entry).               *)
(*                                                                         *)
(* Every public function is an operator from a heap to a heap (and a       *)
(* result), written loop by loop from the C; an action Call_f is one call  *)
(* of f by the driver.  Four specifications drive them:                    *)
(*   Spec      any call at any time, starting with no queue;               *)
(*   SpecQueue inserts and removes at both ends, starting with no queue,   *)
(*             with the order of arrival observed;                         *)
(*   SpecOps   one call, or a chained pair, on each list of <= MaxLen      *)
(*             elements over all payloads;                                 *)
(*   SpecLinks the calls that never read a payload, on each list of        *)
(*             <= MaxElems elements.                                       *)
(* op, arg, ret, pre, op2, pre2, net, splits, hung and order are what an   *)
(* observer of the calls keeps; the functions never read them.             *)
(***************************************************************************)
EXTENDS Integers, Sequences, FiniteSets, TLC

\* ------------------------------------------------------------------ bounds
\* MaxElems elements can be allocated at a time and payloads have at most
\* MaxStrLen bytes.  The free-running program of Spec keeps at most MaxLive
\* elements allocated; SpecOps starts from lists of at most MaxLen elements.
MaxElems == 6
MaxLen == 4
MaxLive == 3
MaxStrLen == 1

\* --------------------------------------------------------------- addresses
NULL == 0
Elems == 1..MaxElems
Sentinel == MaxElems + 1
Ptrs == 0..Sentinel
Fuel == MaxElems + 2

\* ----------------------------------------------------------------- strings
\* A C string is the sequence of its non-zero bytes; NullStr is the null char*.
NullStr == <<0>>
Bytes == {1, 2}
Str == UNION {[1..n -> Bytes] : n \in 0..MaxStrLen}

\* The two payloads used where the order of payloads is all that matters.
FewStr == {<<>>, <<1>>}

strlen(s) == Len(s)

ByteAt(s, i) == IF i <= Len(s) THEN s[i] ELSE 0

RECURSIVE strcmp_from(_, _, _)
strcmp_from(a, b, i) ==
    IF ByteAt(a, i) # ByteAt(b, i) THEN ByteAt(a, i) - ByteAt(b, i)
    ELSE IF ByteAt(a, i) = 0 THEN 0
    ELSE strcmp_from(a, b, i + 1)

strcmp(a, b) == strcmp_from(a, b, 1)

\* strncpy(dst, src, n): the first n bytes of src, cut at its terminator.
strncpy(src, n) == SubSeq(src, 1, IF n < Len(src) THEN n ELSE Len(src))

VARIABLES q, next, prev, value, allocd, held, fault, op, arg, ret, pre, op2, pre2,
          net, splits, hung, order

vars == <<q, next, prev, value, allocd, held, fault, op, arg, ret, pre, op2, pre2,
          net, splits, hung, order>>

\* -------------------------------------------------------------------- heap
\* The memory a call works on.  err is set when the call cannot go on: by an
\* undefined access, or, with hang, by a loop still running after Fuel turns;
\* log is the observer's record of the splits __q_sort makes during the call.
Heap == [next |-> next, prev |-> prev, value |-> value, allocd |-> allocd,
         err |-> FALSE, hang |-> FALSE, log |-> <<>>]

Fault(h) == [h EXCEPT !.err = TRUE]

\* A loop that has used up its fuel on a heap of at most MaxElems elements
\* does not end.
Hang(h) == [h EXCEPT !.err = TRUE, !.hang = TRUE]

\* Why a loop stops short: out of fuel, or an undefined access.
Stop(h, fuel) == IF fuel = 0 /\ ~h.err THEN Hang(h) ELSE Fault(h)

\* A load or store through p is defined only while p is allocated.
Chk(h, S) == IF S \subseteq h.allocd THEN h ELSE Fault(h)

Min(S) == CHOOSE x \in S : \A y \in S : x <= y

\* malloc of an element: NULL when the allocator fails or the pool is used up.
malloc_elem(h, fail) ==
    IF fail \/ Elems \ h.allocd = {} THEN NULL ELSE Min(Elems \ h.allocd)

\* free of an element struct; the freed words are not read again.
free_elem(h, e) ==
    IF e \in h.allocd /\ e \in Elems
    THEN [h EXCEPT !.allocd = @ \ {e}, !.next[e] = NULL, !.prev[e] = NULL]
    ELSE Fault(h)

\* free(e->value)
free_value(h, e) ==
    IF e \in h.allocd /\ e \in Elems /\ h.value[e] # NullStr
    THEN [h EXCEPT !.value[e] = NullStr]
    ELSE Fault(h)

\* ------------------------------------------------------ list.h primitives
INIT_LIST_HEAD(h, head) ==
    Chk([h EXCEPT !.next[head] = head, !.prev[head] = head], {head})

list_add(h, node, head) ==
    LET nx == h.next[head] IN
    Chk([h EXCEPT !.prev[nx] = node, !.next[node] = nx,
                  !.prev[node] = head, !.next[head] = node], {node, head, nx})

list_add_tail(h, node, head) ==
    LET pv == h.prev[head] IN
    Chk([h EXCEPT !.next[pv] = node, !.prev[node] = pv,
                  !.next[node] = head, !.prev[head] = node], {node, head, pv})

\* unlink: the neighbours are joined; the node keeps its own two links (the
\* build without list poisoning), which q_swap reads to relink it.
list_del(h, node) ==
    LET nx == h.next[node]
        pv == h.prev[node] IN
    Chk([h EXCEPT !.prev[nx] = pv, !.next[pv] = nx], {node, nx, pv})

list_empty(h, head) == h.next[head] = head

list_is_singular(h, head) ==
    h.next[head] # head /\ h.next[h.next[head]] = head

\* ------------------------------------------------------------ observation
\* The nodes met walking next from the sentinel, and their payloads.
RECURSIVE Walk(_, _, _, _)
Walk(nx, head, p, fuel) ==
    IF p = head \/ p = NULL \/ fuel = 0 THEN <<>>
    ELSE <<p>> \o Walk(nx, head, nx[p], fuel - 1)

Nodes(h, head) == IF head = NULL THEN <<>> ELSE Walk(h.next, head, h.next[head], Fuel)

Contents(h, head) ==
    LET ns == Nodes(h, head) IN
    [i \in 1..Len(ns) |-> [node |-> ns[i], value |-> h.value[ns[i]]]]

\* -------------------------------------------------------------- queue.c
q_new(h, fail) ==
    IF fail THEN [h |-> h, ret |-> NULL]
    ELSE [h |-> INIT_LIST_HEAD([h EXCEPT !.allocd = @ \cup {Sentinel}], Sentinel),
          ret |-> Sentinel]

RECURSIVE q_free_loop(_, _, _, _, _)
q_free_loop(h, l, pos, safe, fuel) ==
    IF pos = l THEN h
    ELSE IF fuel = 0 \/ h.err THEN Stop(h, fuel)
    ELSE LET h1 == free_elem(free_value(h, pos), pos)
             h2 == Chk(h1, {safe}) IN
         q_free_loop(h2, l, safe, h2.next[safe], fuel - 1)

q_free(h, l) ==
    IF l = NULL THEN h
    ELSE LET pos == h.next[l]
             h0 == Chk(h, {l, pos})
             h1 == q_free_loop(h0, l, pos, h0.next[pos], Fuel) IN
         IF h1.err THEN h1
         ELSE [h1 EXCEPT !.allocd = @ \ {l}, !.next[l] = NULL, !.prev[l] = NULL]

\* __q_insert without free(*ele) when the payload cannot be allocated.
q_insert_common_keeps_element(h, s, failE, failV) ==
    IF s = NullStr THEN [h |-> h, ele |-> NULL, ok |-> FALSE]
    ELSE LET e == malloc_elem(h, failE) IN
         IF e = NULL THEN [h |-> h, ele |-> NULL, ok |-> FALSE]
         ELSE LET h1 == [h EXCEPT !.allocd = @ \cup {e}] IN
              IF failV THEN [h |-> h1, ele |-> e, ok |-> FALSE]
              ELSE [h |-> [h1 EXCEPT !.value[e] = strncpy(s, strlen(s) + 1)],
                    ele |-> e, ok |-> TRUE]

\* __q_insert: ele is the out-parameter *ele, ok the returned bool.
q_insert_common(h, s, failE, failV) ==
    IF s = NullStr THEN [h |-> h, ele |-> NULL, ok |-> FALSE]
    ELSE LET e == malloc_elem(h, failE) IN
         IF e = NULL THEN [h |-> h, ele |-> NULL, ok |-> FALSE]
         ELSE LET h1 == [h EXCEPT !.allocd = @ \cup {e}] IN
              IF failV THEN [h |-> free_elem(h1, e), ele |-> e, ok |-> FALSE]
              ELSE [h |-> [h1 EXCEPT !.value[e] = strncpy(s, strlen(s) + 1)],
                    ele |-> e, ok |-> TRUE]

q_insert_head(h, head, s, failE, failV) ==
    IF head = NULL THEN [h |-> h, ret |-> FALSE]
    ELSE LET r == q_insert_common(h, s, failE, failV) IN
         IF r.ok THEN [h |-> list_add(r.h, r.ele, head), ret |-> TRUE]
         ELSE [h |-> r.h, ret |-> FALSE]

\* q_insert_tail with list_add in place of list_add_tail.
q_insert_tail_links_first(h, head, s, failE, failV) ==
    IF head = NULL THEN [h |-> h, ret |-> FALSE]
    ELSE LET r == q_insert_common(h, s, failE, failV) IN
         IF r.ok THEN [h |-> list_add(r.h, r.ele, head), ret |-> TRUE]
         ELSE [h |-> r.h, ret |-> FALSE]

q_insert_tail(h, head, s, failE, failV) ==
    IF head = NULL THEN [h |-> h, ret |-> FALSE]
    ELSE LET r == q_insert_common(h, s, failE, failV) IN
         IF r.ok THEN [h |-> list_add_tail(r.h, r.ele, head), ret |-> TRUE]
         ELSE [h |-> r.h, ret |-> FALSE]

\* The copy into the caller's buffer: sp is NullStr when no buffer is written.
copy_out(h, e, hasbuf, bufsize) ==
    IF hasbuf /\ bufsize # 0 THEN strncpy(h.value[e], bufsize - 1) ELSE NullStr

\* q_remove_head that destroys the payload of the element it returns.
q_remove_head_frees_payload(h, head, hasbuf, bufsize) ==
    IF head = NULL \/ list_empty(h, head)
    THEN [h |-> h, ret |-> [ele |-> NULL, sp |-> NullStr]]
    ELSE LET first == h.next[head]
             h1 == list_del(Chk(h, {head}), first) IN
         [h |-> free_value(h1, first),
          ret |-> [ele |-> first, sp |-> copy_out(h1, first, hasbuf, bufsize)]]

q_remove_head(h, head, hasbuf, bufsize) ==
    IF head = NULL \/ list_empty(h, head)
    THEN [h |-> h, ret |-> [ele |-> NULL, sp |-> NullStr]]
    ELSE LET first == h.next[head]
             h1 == list_del(Chk(h, {head}), first) IN
         [h |-> h1, ret |-> [ele |-> first, sp |-> copy_out(h1, first, hasbuf, bufsize)]]

\* q_remove_tail without the test list_empty(head).
q_remove_tail_no_empty_test(h, head, hasbuf, bufsize) ==
    IF head = NULL
    THEN [h |-> h, ret |-> [ele |-> NULL, sp |-> NullStr]]
    ELSE LET last == h.prev[head]
             h1 == list_del(Chk(h, {head}), last) IN
         [h |-> h1, ret |-> [ele |-> last, sp |-> copy_out(h1, last, hasbuf, bufsize)]]

q_remove_tail(h, head, hasbuf, bufsize) ==
    IF head = NULL \/ list_empty(h, head)
    THEN [h |-> h, ret |-> [ele |-> NULL, sp |-> NullStr]]
    ELSE LET last == h.prev[head]
             h1 == list_del(Chk(h, {head}), last) IN
         [h |-> h1, ret |-> [ele |-> last, sp |-> copy_out(h1, last, hasbuf, bufsize)]]

q_release_element(h, e) == free_elem(free_value(h, e), e)

RECURSIVE q_size_loop(_, _, _, _, _)
q_size_loop(h, head, pos, size, fuel) ==
    IF pos = head THEN [h |-> h, ret |-> size]
    ELSE IF fuel = 0 \/ pos \notin h.allocd THEN [h |-> Stop(h, fuel), ret |-> size]
    ELSE q_size_loop(h, head, h.next[pos], size + 1, fuel - 1)

\* q_size with the walk started at head->next->next.
q_size_skips_first(h, head) ==
    IF head = NULL THEN [h |-> h, ret |-> 0]
    ELSE q_size_loop(h, head, h.next[h.next[head]], 0, Fuel)

\* q_size with the count started at 1, as if the sentinel were an element.
q_size_counts_sentinel(h, head) ==
    IF head = NULL THEN [h |-> h, ret |-> 0]
    ELSE q_size_loop(h, head, h.next[head], 1, Fuel)

q_size(h, head) ==
    IF head = NULL THEN [h |-> h, ret |-> 0]
    ELSE q_size_loop(h, head, h.next[head], 0, Fuel)

\* The slow/fast walk of q_delete_mid; returns the node slow ends on, or
\* NULL when the walk does not end.
RECURSIVE q_delete_mid_walk(_, _, _, _, _)
q_delete_mid_walk(h, head, slow, fast, fuel) ==
    IF fast # head /\ h.next[fast] # head
    THEN IF fuel = 0 THEN NULL
         ELSE q_delete_mid_walk(h, head, h.next[slow], h.next[h.next[fast]], fuel - 1)
    ELSE slow

\* q_delete_mid with fast started one node ahead of slow.
q_delete_mid_fast_ahead(h, head) ==
    IF head = NULL \/ list_empty(h, head) THEN [h |-> h, ret |-> FALSE]
    ELSE LET slow == q_delete_mid_walk(h, head, h.next[head], h.next[h.next[head]], Fuel)
             h1 == list_del(h, slow) IN
         IF slow = NULL THEN [h |-> Hang(h), ret |-> FALSE]
         ELSE [h |-> free_elem(free_value(h1, slow), slow), ret |-> TRUE]

q_delete_mid(h, head) ==
    IF head = NULL \/ list_empty(h, head) THEN [h |-> h, ret |-> FALSE]
    ELSE LET slow == q_delete_mid_walk(h, head, h.next[head], h.next[head], Fuel)
             h1 == list_del(h, slow) IN
         IF slow = NULL THEN [h |-> Hang(h), ret |-> FALSE]
         ELSE [h |-> free_elem(free_value(h1, slow), slow), ret |-> TRUE]

\* The loop with the test written strcmp(...) instead of !strcmp(...).
RECURSIVE q_delete_dup_loop_missing_not(_, _, _, _, _, _)
q_delete_dup_loop_missing_not(h, head, pos, nxt, dup, fuel) ==
    IF pos = head THEN h
    ELSE IF fuel = 0 \/ h.err \/ ~({pos, nxt} \subseteq h.allocd) THEN Stop(h, fuel)
    ELSE LET del == free_elem(free_value(list_del(h, pos), pos), pos) IN
         IF nxt # head /\ strcmp(h.value[pos], h.value[nxt]) # 0
         THEN q_delete_dup_loop_missing_not(del, head, nxt, del.next[nxt], 1, fuel - 1)
         ELSE IF dup # 0
         THEN q_delete_dup_loop_missing_not(del, head, nxt, del.next[nxt], 0, fuel - 1)
         ELSE q_delete_dup_loop_missing_not(h, head, nxt, h.next[nxt], dup, fuel - 1)

\* The loop without the else-if branch: the last member of a run is kept.
RECURSIVE q_delete_dup_loop_keeps_last(_, _, _, _, _, _)
q_delete_dup_loop_keeps_last(h, head, pos, nxt, dup, fuel) ==
    IF pos = head THEN h
    ELSE IF fuel = 0 \/ h.err \/ ~({pos, nxt} \subseteq h.allocd) THEN Stop(h, fuel)
    ELSE LET del == free_elem(free_value(list_del(h, pos), pos), pos) IN
         IF nxt # head /\ strcmp(h.value[pos], h.value[nxt]) = 0
         THEN q_delete_dup_loop_keeps_last(del, head, nxt, del.next[nxt], 1, fuel - 1)
         ELSE q_delete_dup_loop_keeps_last(h, head, nxt, h.next[nxt], 0, fuel - 1)

\* The body of list_for_each_entry_safe (pos, next, head, list) in q_delete_dup.
RECURSIVE q_delete_dup_loop(_, _, _, _, _, _)
q_delete_dup_loop(h, head, pos, nxt, dup, fuel) ==
    IF pos = head THEN h
    ELSE IF fuel = 0 \/ h.err \/ ~({pos, nxt} \subseteq h.allocd) THEN Stop(h, fuel)
    ELSE LET del == free_elem(free_value(list_del(h, pos), pos), pos) IN
         IF nxt # head /\ strcmp(h.value[pos], h.value[nxt]) = 0
         THEN q_delete_dup_loop(del, head, nxt, del.next[nxt], 1, fuel - 1)
         ELSE IF dup # 0
         THEN q_delete_dup_loop(del, head, nxt, del.next[nxt], 0, fuel - 1)
         ELSE q_delete_dup_loop(h, head, nxt, h.next[nxt], dup, fuel - 1)

q_delete_dup(h, head) ==
    IF head = NULL THEN [h |-> h, ret |-> FALSE]
    ELSE LET pos == h.next[head] IN
         [h |-> q_delete_dup_loop(h, head, pos, h.next[pos], 0, Fuel), ret |-> TRUE]

\* ---- the q_delete_dup of the second revision of the file (part_000) ----
\* What the undefined frees of a sentinel taken for an element can do.
UBOutcomes == {"crash", "ignored"}

\* *prev_value: pv is NULL for the literal "" and else the element whose
\* payload buffer prev_value points into.
prev_value_str(h, pv) == IF pv = NULL THEN <<>> ELSE h.value[pv]

\* list_del(&start->list); free(start->value); free(start).  When start is
\* list_entry of the sentinel, start->value lies outside the sentinel's block
\* and start is no pointer malloc returned: both frees are undefined.
delete_start(h, start, ub) ==
    IF start \in Elems
    THEN free_elem(free_value(list_del(h, start), start), start)
    ELSE IF ub = "crash" THEN Fault(list_del(h, start)) ELSE list_del(h, start)

\* The body of list_for_each_entry_safe (pos, safe, head, list); c holds the
\* heap and the locals pos, safe, start, pv (prev_value).
RECURSIVE q_delete_dup_part000_loop(_, _, _, _)
q_delete_dup_part000_loop(c, head, ub, fuel) ==
    IF c.pos = head THEN c
    ELSE IF fuel = 0 \/ c.h.err \/ ~({c.pos, c.safe} \subseteq c.h.allocd)
    THEN [c EXCEPT !.h = Stop(c.h, fuel)]
    ELSE LET h == c.h
             c1 == IF strcmp(h.value[c.pos], prev_value_str(h, c.pv)) = 0
                   THEN [c EXCEPT !.start = IF c.start = NULL THEN h.prev[c.pos] ELSE c.start,
                                  !.h = free_elem(free_value(list_del(h, c.pos), c.pos), c.pos)]
                   ELSE [c EXCEPT !.pv = c.pos,
                                  !.h = IF c.start # NULL THEN delete_start(h, c.start, ub) ELSE h,
                                  !.start = NULL] IN
         q_delete_dup_part000_loop(
             [c1 EXCEPT !.pos = c.safe, !.safe = c1.h.next[c.safe]], head, ub, fuel - 1)

q_delete_dup_part000(h, head, ub) ==
    IF head = NULL THEN [h |-> h, ret |-> FALSE]
    ELSE LET pos == h.next[head]
             c0 == [h |-> h, pos |-> pos, safe |-> h.next[pos], start |-> NULL, pv |-> NULL]
             c1 == q_delete_dup_part000_loop(c0, head, ub, Fuel)
             h1 == IF c1.start # NULL /\ ~c1.h.err
                   THEN delete_start(c1.h, c1.start, ub) ELSE c1.h IN
         [h |-> h1, ret |-> TRUE]

\* The loop without the test pos->next == head that ends it on an odd tail.
RECURSIVE q_swap_loop_no_break(_, _, _, _)
q_swap_loop_no_break(h, head, pos, fuel) ==
    IF pos = head THEN h
    ELSE IF fuel = 0 \/ h.err \/ pos \notin h.allocd THEN Stop(h, fuel)
    ELSE LET h1 == list_del(h, pos)
             h2 == list_add(h1, pos, h1.next[pos]) IN
         q_swap_loop_no_break(h2, head, h2.next[pos], fuel - 1)

\* The loop written with list_for_each_safe: the next node is read before
\* pos is moved behind it.
RECURSIVE q_swap_loop_safe_iteration(_, _, _, _)
q_swap_loop_safe_iteration(h, head, pos, fuel) ==
    IF pos = head THEN h
    ELSE IF fuel = 0 \/ h.err \/ pos \notin h.allocd THEN Stop(h, fuel)
    ELSE IF h.next[pos] = head THEN h
    ELSE LET h1 == list_del(h, pos)
             h2 == list_add(h1, pos, h1.next[pos]) IN
         q_swap_loop_safe_iteration(h2, head, h.next[pos], fuel - 1)

\* The body of list_for_each (pos, head) in q_swap.
RECURSIVE q_swap_loop(_, _, _, _)
q_swap_loop(h, head, pos, fuel) ==
    IF pos = head THEN h
    ELSE IF fuel = 0 \/ h.err \/ pos \notin h.allocd THEN Stop(h, fuel)
    ELSE IF h.next[pos] = head THEN h
    ELSE LET h1 == list_del(h, pos)
             h2 == list_add(h1, pos, h1.next[pos]) IN
         q_swap_loop(h2, head, h2.next[pos], fuel - 1)

q_swap(h, head) ==
    IF head = NULL \/ list_empty(h, head) \/ list_is_singular(h, head) THEN h
    ELSE q_swap_loop(h, head, h.next[head], Fuel)

\* The do-while of q_reverse: one turn exchanges the links of pos.
RECURSIVE q_reverse_loop(_, _, _, _, _)
q_reverse_loop(h, head, pos, nxt, fuel) ==
    IF fuel = 0 \/ ~({pos, nxt} \subseteq h.allocd) THEN Stop(h, fuel)
    ELSE LET h1 == [h EXCEPT !.next[pos] = h.prev[pos], !.prev[pos] = nxt]
             pos1 == nxt
             nxt1 == h1.next[nxt] IN
         IF pos1 # head THEN q_reverse_loop(h1, head, pos1, nxt1, fuel - 1) ELSE h1

\* q_reverse with while (pos != head) {...} in place of do {...} while.
q_reverse_while_loop(h, head) ==
    IF head = NULL \/ list_empty(h, head) \/ list_is_singular(h, head) THEN h
    ELSE IF head # head THEN q_reverse_loop(h, head, head, h.next[head], Fuel) ELSE h

\* q_reverse started from the first element, not from the sentinel.
q_reverse_skips_sentinel(h, head) ==
    IF head = NULL \/ list_empty(h, head) \/ list_is_singular(h, head) THEN h
    ELSE q_reverse_loop(h, head, h.next[head], h.next[h.next[head]], Fuel)

q_reverse(h, head) ==
    IF head = NULL \/ list_empty(h, head) \/ list_is_singular(h, head) THEN h
    ELSE q_reverse_loop(h, head, head, h.next[head], Fuel)

\* ------------------------------------------------------------ merge sort
\* (uintptr_t) left | (uintptr_t) right
RECURSIVE BitOr(_, _)
BitOr(a, b) ==
    IF a = 0 THEN b
    ELSE IF b = 0 THEN a
    ELSE (IF a % 2 = 1 \/ b % 2 = 1 THEN 1 ELSE 0) + 2 * BitOr(a \div 2, b \div 2)

\* The walk with the test fast->next && fast->next->next.
RECURSIVE q_split_walk_stops_early(_, _, _, _)
q_split_walk_stops_early(h, fast, slow, fuel) ==
    IF h.next[fast] # NULL /\ h.next[h.next[fast]] # NULL
    THEN IF fuel = 0 THEN NULL
         ELSE q_split_walk_stops_early(h, h.next[h.next[fast]], h.next[slow], fuel - 1)
    ELSE slow

\* The slow/fast walk over a NULL-terminated chain; returns the node slow
\* ends on, or NULL when the walk does not end.
RECURSIVE q_split_walk(_, _, _, _)
q_split_walk(h, fast, slow, fuel) ==
    IF fast # NULL /\ h.next[fast] # NULL
    THEN IF fuel = 0 THEN NULL
         ELSE q_split_walk(h, h.next[h.next[fast]], h.next[slow], fuel - 1)
    ELSE slow

\* The nodes of the NULL-terminated chain that starts at p.
RECURSIVE Chain(_, _, _)
Chain(nx, p, fuel) ==
    IF p = NULL \/ fuel = 0 THEN <<>> ELSE <<p>> \o Chain(nx, nx[p], fuel - 1)

\* __q_split_into_two: cuts the chain before its middle node and returns it.
\* The observer logs the chain given, slow, slow->prev and the two chains left.
q_split_into_two(h, head) ==
    LET slow == q_split_walk(h, head, head, Fuel)
        pv == h.prev[slow]
        h1 == Chk([h EXCEPT !.next[pv] = NULL], {slow, pv})
        seen == [chain |-> Chain(h.next, head, Fuel), mid |-> slow, pv |-> pv,
                 left |-> Chain(h1.next, head, Fuel),
                 right |-> Chain(h1.next, slow, Fuel)] IN
    IF slow = NULL THEN [h |-> Hang(h), ret |-> NULL]
    ELSE [h |-> [h1 EXCEPT !.log = Append(@, seen)], ret |-> slow]

\* *ptr = x, where ptr is NULL for &head and a node n for &n->next.
StorePtr(m, x) ==
    IF m.ptr = NULL THEN [m EXCEPT !.head = x]
    ELSE [m EXCEPT !.h = Chk([m.h EXCEPT !.next[m.ptr] = x], {m.ptr})]

\* *ptr
LoadPtr(m) == IF m.ptr = NULL THEN m.head ELSE m.h.next[m.ptr]

\* The merge loop with strcmp(...) < 0: on a tie it takes the right head.
RECURSIVE q_merge_loop_right_on_tie(_, _)
q_merge_loop_right_on_tie(m, fuel) ==
    IF m.left # NULL /\ m.right # NULL
    THEN IF fuel = 0 \/ ~({m.left, m.right} \subseteq m.h.allocd)
         THEN [m EXCEPT !.h = Stop(m.h, fuel), !.left = NULL, !.right = NULL]
         ELSE LET sl == StorePtr(m, m.left)
                  sr == StorePtr(m, m.right)
                  m1 == IF strcmp(m.h.value[m.left], m.h.value[m.right]) < 0
                        THEN [sl EXCEPT !.left = sl.h.next[m.left]]
                        ELSE [sr EXCEPT !.right = sr.h.next[m.right]] IN
              q_merge_loop_right_on_tie([m1 EXCEPT !.ptr = LoadPtr(m1)], fuel - 1)
    ELSE m

\* The loop of __q_merge_two_lists: m holds the heap and the locals.
RECURSIVE q_merge_loop(_, _)
q_merge_loop(m, fuel) ==
    IF m.left # NULL /\ m.right # NULL
    THEN IF fuel = 0 \/ ~({m.left, m.right} \subseteq m.h.allocd)
         THEN [m EXCEPT !.h = Stop(m.h, fuel), !.left = NULL, !.right = NULL]
         ELSE LET sl == StorePtr(m, m.left)
                  sr == StorePtr(m, m.right)
                  m1 == IF strcmp(m.h.value[m.left], m.h.value[m.right]) <= 0
                        THEN [sl EXCEPT !.left = sl.h.next[m.left]]
                        ELSE [sr EXCEPT !.right = sr.h.next[m.right]] IN
              q_merge_loop([m1 EXCEPT !.ptr = LoadPtr(m1)], fuel - 1)
    ELSE m

\* __q_merge_two_lists with the tail of right dropped: *ptr = left.
q_merge_two_lists_drops_right(h, left, right) ==
    LET m0 == [h |-> h, left |-> left, right |-> right, head |-> NULL, ptr |-> NULL]
        m1 == q_merge_loop(m0, Fuel)
        m2 == StorePtr(m1, m1.left) IN
    [h |-> m2.h, ret |-> m2.head]

\* __q_merge_two_lists
q_merge_two_lists(h, left, right) ==
    LET m0 == [h |-> h, left |-> left, right |-> right, head |-> NULL, ptr |-> NULL]
        m1 == q_merge_loop(m0, Fuel)
        m2 == StorePtr(m1, BitOr(m1.left, m1.right)) IN
    [h |-> m2.h, ret |-> m2.head]

\* __q_sort
RECURSIVE q_sort_rec(_, _, _)
q_sort_rec(h, left, fuel) ==
    IF fuel = 0 \/ left \notin h.allocd THEN [h |-> Stop(h, fuel), ret |-> left]
    ELSE IF h.next[left] # NULL
    THEN LET s == q_split_into_two(h, left)
             l == q_sort_rec(s.h, left, fuel - 1)
             r == q_sort_rec(l.h, s.ret, fuel - 1) IN
         q_merge_two_lists(r.h, l.ret, r.ret)
    ELSE [h |-> h, ret |-> left]

\* The loop of q_sort that fills in prev along the sorted chain.
RECURSIVE q_sort_relink(_, _, _, _)
q_sort_relink(h, pv, pos, fuel) ==
    IF pos = NULL THEN [h |-> h, ret |-> pv]
    ELSE IF fuel = 0 \/ pos \notin h.allocd THEN [h |-> Stop(h, fuel), ret |-> pv]
    ELSE q_sort_relink([h EXCEPT !.prev[pos] = pv], pos, h.next[pos], fuel - 1)

\* q_sort without the loop that fills in prev.
q_sort_keeps_stale_prev(h, head) ==
    IF head = NULL \/ list_empty(h, head) \/ list_is_singular(h, head) THEN h
    ELSE LET h1 == [h EXCEPT !.next[h.prev[head]] = NULL]
             s == q_sort_rec(h1, h1.next[head], Fuel)
             h2 == [s.h EXCEPT !.next[head] = s.ret]
             w == q_sort_relink(h2, head, h2.next[head], Fuel) IN
         Chk([h2 EXCEPT !.next[w.ret] = head, !.prev[head] = w.ret], {w.ret})

q_sort(h, head) ==
    IF head = NULL \/ list_empty(h, head) \/ list_is_singular(h, head) THEN h
    ELSE LET h1 == [h EXCEPT !.next[h.prev[head]] = NULL]
             s == q_sort_rec(h1, h1.next[head], Fuel)
             h2 == [s.h EXCEPT !.next[head] = s.ret]
             w == q_sort_relink(h2, head, h2.next[head], Fuel)
             h3 == w.h IN
         Chk([h3 EXCEPT !.next[w.ret] = head, !.prev[head] = w.ret], {w.ret})

\* ---------------------------------------------------------- state machine
\* The caller's (sp, bufsize): no buffer, or a buffer of 0..MaxStrLen+1 bytes.
Buffers == {<<FALSE, 0>>} \cup {<<TRUE, n>> : n \in 0..(MaxStrLen + 1)}

\* Which malloc of an insert fails: none, the element's, the payload's.
AllocFailures == {<<FALSE, FALSE>>, <<TRUE, FALSE>>, <<FALSE, TRUE>>}

Init ==
    /\ q = NULL
    /\ next = [p \in Ptrs |-> NULL]
    /\ prev = [p \in Ptrs |-> NULL]
    /\ value = [p \in Ptrs |-> NullStr]
    /\ allocd = {}
    /\ held = {}
    /\ fault = FALSE
    /\ op = "init"
    /\ arg = <<>>
    /\ ret = NULL
    /\ pre = <<>>
    /\ op2 = "none"
    /\ pre2 = <<>>
    /\ net = 0
    /\ splits = <<>>
    /\ hung = FALSE
    /\ order = <<>>

\* The heap after a call; a faulting call ends the program where it stood.
Apply(h) ==
    /\ splits' = h.log
    /\ hung' = h.hang
    /\ IF h.err
       THEN fault' = TRUE /\ UNCHANGED <<next, prev, value, allocd>>
       ELSE /\ fault' = FALSE
            /\ next' = h.next
            /\ prev' = h.prev
            /\ value' = h.value
            /\ allocd' = h.allocd

\* Pairs of consecutive calls whose combined effect is observed.
Chained == {<<"q_sort", "q_delete_dup">>, <<"q_reverse", "q_reverse">>,
            <<"q_swap", "q_swap">>}

\* What the observer keeps of a call: its name, its arguments a, its result and
\* the list before it; for a chained pair also the name of the first call and
\* the list before it.
RecordCall(name, a, r) ==
    /\ op' = name
    /\ arg' = a
    /\ ret' = r
    /\ pre' = Contents(Heap, q)
    /\ op2' = IF <<op, name>> \in Chained THEN op ELSE "none"
    /\ pre2' = IF <<op, name>> \in Chained THEN pre ELSE <<>>

\* A call whose arguments, beyond the list, are not kept.
Record(name, r) == RecordCall(name, <<>>, r)

\* net counts the successful inserts minus the removes that returned an
\* element, since q_new; it is -1 once any other call has changed the list.
NetAdd(d) == net' = IF net < 0 THEN net ELSE net + d
NetVoid == net' = -1

Call_q_new ==
    /\ ~fault /\ q = NULL
    /\ \E fail \in BOOLEAN :
          LET r == q_new(Heap, fail) IN
          Apply(r.h) /\ q' = r.ret /\ Record("q_new", r.ret)
    /\ net' = 0
    /\ UNCHANGED held

\* After q_free the driver drops its pointer to the queue.
Call_q_free ==
    /\ ~fault
    /\ Apply(q_free(Heap, q))
    /\ q' = NULL
    /\ Record("q_free", NULL)
    /\ net' = 0
    /\ UNCHANGED held

Call_q_insert_head(S) ==
    /\ ~fault
    /\ \E s \in S \cup {NullStr}, f \in AllocFailures :
          LET r == q_insert_head(Heap, q, s, f[1], f[2]) IN
          /\ Apply(r.h)
          /\ RecordCall("q_insert_head", <<s, f[1], f[2]>>, r.ret)
          /\ NetAdd(IF r.ret THEN 1 ELSE 0)
    /\ UNCHANGED <<q, held>>

Call_q_insert_tail(S) ==
    /\ ~fault
    /\ \E s \in S \cup {NullStr}, f \in AllocFailures :
          LET r == q_insert_tail(Heap, q, s, f[1], f[2]) IN
          /\ Apply(r.h)
          /\ RecordCall("q_insert_tail", <<s, f[1], f[2]>>, r.ret)
          /\ NetAdd(IF r.ret THEN 1 ELSE 0)
    /\ UNCHANGED <<q, held>>

Call_q_remove_head ==
    /\ ~fault
    /\ \E b \in Buffers :
          LET r == q_remove_head(Heap, q, b[1], b[2]) IN
          /\ Apply(r.h) /\ Record("q_remove_head", r.ret)
          /\ held' = IF r.ret.ele = NULL THEN held ELSE held \cup {r.ret.ele}
          /\ NetAdd(IF r.ret.ele = NULL THEN 0 ELSE -1)
    /\ UNCHANGED q

Call_q_remove_tail ==
    /\ ~fault
    /\ \E b \in Buffers :
          LET r == q_remove_tail(Heap, q, b[1], b[2]) IN
          /\ Apply(r.h) /\ Record("q_remove_tail", r.ret)
          /\ held' = IF r.ret.ele = NULL THEN held ELSE held \cup {r.ret.ele}
          /\ NetAdd(IF r.ret.ele = NULL THEN 0 ELSE -1)
    /\ UNCHANGED q

Call_q_release_element ==
    /\ ~fault
    /\ \E e \in held :
          /\ Apply(q_release_element(Heap, e))
          /\ held' = held \ {e}
          /\ Record("q_release_element", e)
    /\ UNCHANGED <<q, net>>

Call_q_size ==
    /\ ~fault
    /\ LET r == q_size(Heap, q) IN Apply(r.h) /\ Record("q_size", r.ret)
    /\ UNCHANGED <<q, held, net>>

Call_q_delete_mid ==
    /\ ~fault
    /\ LET r == q_delete_mid(Heap, q) IN Apply(r.h) /\ Record("q_delete_mid", r.ret)
    /\ NetVoid
    /\ UNCHANGED <<q, held>>

Call_q_delete_dup ==
    /\ ~fault
    /\ LET r == q_delete_dup(Heap, q) IN Apply(r.h) /\ Record("q_delete_dup", r.ret)
    /\ NetVoid
    /\ UNCHANGED <<q, held>>

Call_q_delete_dup_part000 ==
    /\ ~fault
    /\ \E ub \in UBOutcomes :
          LET r == q_delete_dup_part000(Heap, q, ub) IN
          Apply(r.h) /\ Record("q_delete_dup_part000", r.ret)
    /\ NetVoid
    /\ UNCHANGED <<q, held>>

Call_q_swap ==
    /\ ~fault
    /\ Apply(q_swap(Heap, q))
    /\ Record("q_swap", NULL)
    /\ UNCHANGED <<q, held, net>>

Call_q_reverse ==
    /\ ~fault
    /\ Apply(q_reverse(Heap, q))
    /\ Record("q_reverse", NULL)
    /\ UNCHANGED <<q, held, net>>

Call_q_sort ==
    /\ ~fault
    /\ Apply(q_sort(Heap, q))
    /\ Record("q_sort", NULL)
    /\ UNCHANGED <<q, held, net>>

\* The observer of arrivals: order lists the elements now in the list, the
\* earliest inserted first, each with the end it was inserted at.
Track ==
    LET stays(x) == x.node \in (allocd' \cap Elems) \ held'
        new == [node |-> CHOOSE e \in allocd' \ allocd : TRUE,
                end |-> IF op' = "q_insert_head" THEN "head" ELSE "tail"] IN
    order' = IF op' \in {"q_new", "q_free"} THEN <<>>
             ELSE IF op' \in {"q_insert_head", "q_insert_tail"} /\ ret' = TRUE
             THEN Append(order, new)
             ELSE SelectSeq(order, stays)

\* The runs that do not observe arrivals.
Untracked == UNCHANGED order

\* The free-running program: any call at any time, at most MaxLive elements
\* allocated, the payloads inserted being "" or one byte.
Live == Cardinality(allocd \cap Elems)

Next ==
    \/ (Call_q_new /\ Untracked)
    \/ (Call_q_free /\ Untracked)
    \/ (Live < MaxLive /\ Call_q_insert_head(FewStr) /\ Untracked)
    \/ (Live < MaxLive /\ Call_q_insert_tail(FewStr) /\ Untracked)
    \/ (Call_q_remove_head /\ Untracked)
    \/ (Call_q_remove_tail /\ Untracked)
    \/ (Call_q_release_element /\ Untracked)
    \/ (Call_q_size /\ Untracked)
    \/ (Call_q_delete_mid /\ Untracked)
    \/ (Call_q_delete_dup /\ Untracked)
    \/ (Call_q_swap /\ Untracked)
    \/ (Call_q_reverse /\ Untracked)
    \/ (Call_q_sort /\ Untracked)

Spec == Init /\ [][Next]_vars

\* ------------------------------------------------ the list used as a queue
\* Inserts and removes at both ends, from the state after construction, with
\* the arrivals observed.  The elements are told apart by their addresses, so
\* one payload is enough.
QueueStr == {<<1>>}

NextQueue ==
    \/ (Call_q_new /\ Track)
    \/ (Call_q_free /\ Track)
    \/ (Live < MaxLive /\ Call_q_insert_head(QueueStr) /\ Track)
    \/ (Live < MaxLive /\ Call_q_insert_tail(QueueStr) /\ Track)
    \/ (Call_q_remove_head /\ Track)
    \/ (Call_q_remove_tail /\ Track)
    \/ (Call_q_release_element /\ Track)

SpecQueue == Init /\ [][NextQueue]_vars

\* ------------------------------------------------- one call on a given list
EmptyHeap ==
    [next |-> [p \in Ptrs |-> NULL], prev |-> [p \in Ptrs |-> NULL],
     value |-> [p \in Ptrs |-> NullStr], allocd |-> {}, err |-> FALSE,
     hang |-> FALSE, log |-> <<>>]

\* The list q_new and then q_insert_tail of each payload of vals build.
RECURSIVE Build(_, _)
Build(vals, n) ==
    IF n = 0 THEN q_new(EmptyHeap, FALSE).h
    ELSE q_insert_tail(Build(vals, n - 1), Sentinel, vals[n], FALSE, FALSE).h

StartFrom(vals) ==
    LET h == Build(vals, Len(vals)) IN
    /\ q = Sentinel
    /\ next = h.next
    /\ prev = h.prev
    /\ value = h.value
    /\ allocd = h.allocd
    /\ held = {}
    /\ fault = FALSE
    /\ op = "init"
    /\ arg = <<>>
    /\ ret = NULL
    /\ pre = <<>>
    /\ op2 = "none"
    /\ pre2 = <<>>
    /\ net = Len(vals)
    /\ splits = <<>>
    /\ hung = FALSE
    /\ order = <<>>

Lists == UNION {[1..n -> Str] : n \in 0..MaxLen}

InitOps == Init \/ \E vals \in Lists : StartFrom(vals)

\* One call on the list, or the second call of a chained pair.
First == op = "init"
Second(a) == op = a /\ op2 = "none"

NextOps ==
    \/ (First /\ Call_q_new /\ Untracked)
    \/ (First /\ Call_q_free /\ Untracked)
    \/ (First /\ Call_q_insert_head(Str) /\ Untracked)
    \/ (First /\ Call_q_insert_tail(Str) /\ Untracked)
    \/ (First /\ Call_q_remove_head /\ Untracked)
    \/ (First /\ Call_q_remove_tail /\ Untracked)
    \/ (First /\ Call_q_size /\ Untracked)
    \/ (First /\ Call_q_delete_mid /\ Untracked)
    \/ ((First \/ Second("q_sort")) /\ Call_q_delete_dup /\ Untracked)
    \/ (First /\ Call_q_delete_dup_part000 /\ Untracked)
    \/ ((First \/ Second("q_swap")) /\ Call_q_swap /\ Untracked)
    \/ ((First \/ Second("q_reverse")) /\ Call_q_reverse /\ Untracked)
    \/ (First /\ Call_q_sort /\ Untracked)

SpecOps == InitOps /\ [][NextOps]_vars

\* ------------------------------------- the calls that never read a payload
\* q_delete_mid, q_swap, q_reverse and q_size follow links only: they are run
\* on lists of up to MaxElems elements whose payloads are "" or one byte.
LongLists == UNION {[1..n -> FewStr] : n \in 0..MaxElems}

InitLinks == Init \/ \E vals \in LongLists : StartFrom(vals)

NextLinks ==
    \/ (First /\ Call_q_size /\ Untracked)
    \/ (First /\ Call_q_delete_mid /\ Untracked)
    \/ ((First \/ Second("q_swap")) /\ Call_q_swap /\ Untracked)
    \/ ((First \/ Second("q_reverse")) /\ Call_q_reverse /\ Untracked)

SpecLinks == InitLinks /\ [][NextLinks]_vars

\* ------------------------------------------------------------- properties
Now == Contents(Heap, q)

NodesOf(c) == [i \in 1..Len(c) |-> c[i].node]

Range(s) == {s[i] : i \in 1..Len(s)}

NoRepeat(s) == \A i, j \in 1..Len(s) : i # j => s[i] # s[j]

\* The elements the list owns: allocated and not handed to the caller.
Linked == (allocd \cap Elems) \ held

\* Byte-wise order of two payloads.
LexLess(a, b) ==
    \E k \in 0..Len(a) :
       /\ k <= Len(b)
       /\ \A i \in 1..k : a[i] = b[i]
       /\ IF k = Len(a) THEN k < Len(b) ELSE k < Len(b) /\ a[k + 1] < b[k + 1]

NonDecreasing(c) == \A i \in 1..(Len(c) - 1) : ~LexLess(c[i + 1].value, c[i].value)

SamePayload(x, y) == x.value = y.value

\* C1: between calls the list is a closed ring: every node reachable from the
\* sentinel has non-null links that its neighbours mirror, and walking next
\* from the sentinel meets every linked element once and returns to it.
RingClosed ==
    (q # NULL /\ ~fault) =>
       LET ns == Nodes(Heap, q)
           R == {q} \cup Range(ns) IN
       /\ \A x \in R : /\ next[x] # NULL /\ prev[x] # NULL
                       /\ prev[next[x]] = x /\ next[prev[x]] = x
       /\ NoRepeat(ns)
       /\ Range(ns) = Linked
       /\ next[IF ns = <<>> THEN q ELSE ns[Len(ns)]] = q

RingAfterSort ==
    /\ op = "q_sort" /\ q # NULL /\ ~fault
    /\ Len(Now) >= 2
    /\ NodesOf(Now) # NodesOf(pre)
    /\ held # {}

\* C2: q_size returns the number of elements linked into the ring, which is
\* the number of successful inserts minus the removes that returned an
\* element; the size of an absent list is 0.
SizeCountsLinked ==
    op = "q_size" =>
       /\ ret = Cardinality(Linked)
       /\ net >= 0 => ret = net
       /\ q = NULL => ret = 0

SizeAfterInsertsAndRemoves ==
    op = "q_size" /\ net = 2 /\ ret = 2 /\ held # {} /\ Cardinality(allocd \cap Elems) = MaxLive

SizeOfAbsentList == op = "q_size" /\ q = NULL /\ ret = 0

\* C3: after q_sort the list holds exactly the nodes it held before, each
\* once and with its payload, in non-decreasing byte-wise payload order.
SortedPermutation ==
    op = "q_sort" =>
       /\ ~fault
       /\ Len(Now) = Len(pre)
       /\ NoRepeat(NodesOf(Now))
       /\ Range(Now) = Range(pre)
       /\ NonDecreasing(Now)

SortReorders ==
    /\ op = "q_sort" /\ ~fault
    /\ Len(pre) = MaxLen
    /\ LexLess(pre[MaxLen].value, pre[1].value)
    /\ NodesOf(Now) # NodesOf(pre)

\* C4: q_sort is stable: elements with equal payloads keep their input order.
SortStable ==
    op = "q_sort" =>
       \A i, j \in 1..Len(pre) :
          (i < j /\ SamePayload(pre[i], pre[j])) =>
             \E a, b \in 1..Len(Now) :
                a < b /\ Now[a].node = pre[i].node /\ Now[b].node = pre[j].node

SortMovesEqualPayloads ==
    /\ op = "q_sort" /\ ~fault
    /\ Len(pre) = MaxLen
    /\ SamePayload(pre[1], pre[2]) /\ SamePayload(pre[2], pre[3])
    /\ LexLess(pre[MaxLen].value, pre[1].value)
    /\ Now[1].node = pre[MaxLen].node

\* The elements of c whose payload occurs in c exactly once, in c's order.
Occurrences(c, v) == Cardinality({i \in 1..Len(c) : c[i].value = v})

OccurringOnce(c) ==
    LET Once(x) == Occurrences(c, x.value) = 1 IN SelectSeq(c, Once)

DeleteDupCalls == {"q_delete_dup", "q_delete_dup_part000"}

DeleteDupPost ==
    /\ ~fault
    /\ ret = TRUE
    /\ Now = OccurringOnce(pre)
    /\ Linked = Range(NodesOf(Now))
    /\ \A i \in 1..Len(pre) : pre[i].node \notin Linked => value[pre[i].node] = NullStr

\* C5: on a list sorted ascending q_delete_dup (either revision) removes every
\* member of every run of equal payloads, keeps exactly the elements whose
\* payload occurs once, in their order, and returns true.
DeleteDupRemovesRuns ==
    (op \in DeleteDupCalls /\ q # NULL /\ NonDecreasing(pre)) => DeleteDupPost

\* C5, for the q_delete_dup of queue.c alone.
DeleteDupRemovesRunsQueueC ==
    (op = "q_delete_dup" /\ q # NULL /\ NonDecreasing(pre)) => DeleteDupPost

DeleteDupOnRuns ==
    /\ op = "q_delete_dup" /\ q # NULL /\ NonDecreasing(pre)
    /\ Len(pre) = MaxLen /\ Len(Now) = 1
    /\ SamePayload(pre[1], pre[2]) /\ SamePayload(pre[2], pre[3])

\* C6: q_sort followed by q_delete_dup leaves strictly ascending payloads.
SortDedupStrictlyAscending ==
    (op = "q_delete_dup" /\ op2 = "q_sort") =>
       /\ ~fault
       /\ \A i \in 1..(Len(Now) - 1) : LexLess(Now[i].value, Now[i + 1].value)

SortDedupOnUnsorted ==
    /\ op = "q_delete_dup" /\ op2 = "q_sort" /\ ~fault
    /\ Len(pre2) = MaxLen /\ Len(Now) = 2
    /\ NodesOf(pre) # NodesOf(pre2)

\* C7 as stated: after q_sort and q_delete_dup the length is the number of
\* distinct payloads of the original list.
SortDedupLengthIsDistinctCount ==
    (op = "q_delete_dup" /\ op2 = "q_sort") =>
       Len(Now) = Cardinality({pre2[i].value : i \in 1..Len(pre2)})

\* C7 amended: after q_sort and q_delete_dup the length is the number of
\* payloads that occur exactly once in the original list.
SortDedupLengthIsOnceCount ==
    (op = "q_delete_dup" /\ op2 = "q_sort") =>
       /\ ~fault
       /\ Len(Now) = Cardinality({v \in {pre2[i].value : i \in 1..Len(pre2)} :
                                     Occurrences(pre2, v) = 1})

SortDedupDropsARun ==
    /\ op = "q_delete_dup" /\ op2 = "q_sort" /\ ~fault
    /\ Len(pre2) = MaxLen /\ Len(Now) = 1
    /\ Cardinality({pre2[i].value : i \in 1..Len(pre2)}) = 2
    /\ ~NonDecreasing(pre2)

\* C8: on a list of n >= 1 elements q_delete_mid returns true, unlinks and
\* destroys the element at 0-based index n \div 2 and leaves the others linked
\* in their order.
RemoveAt(s, k) == SubSeq(s, 1, k - 1) \o SubSeq(s, k + 1, Len(s))

DeleteMidRemovesMiddle ==
    (op = "q_delete_mid" /\ Len(pre) >= 1) =>
       LET mid == pre[(Len(pre) \div 2) + 1].node IN
       /\ ~fault
       /\ ret = TRUE
       /\ Now = RemoveAt(pre, (Len(pre) \div 2) + 1)
       /\ mid \notin allocd
       /\ value[mid] = NullStr
       /\ Linked = Range(NodesOf(Now))

DeleteMidOfSix ==
    /\ op = "q_delete_mid" /\ Len(pre) = 6 /\ ret = TRUE
    /\ NodesOf(Now) = <<pre[1].node, pre[2].node, pre[3].node, pre[5].node, pre[6].node>>

\* C9: q_reverse leaves the same nodes with the same payloads, linked in the
\* reverse of their order, and neither allocates nor frees an element.
Reversed(s) == [i \in 1..Len(s) |-> s[Len(s) + 1 - i]]

ReverseReverses ==
    op = "q_reverse" =>
       /\ ~fault
       /\ Now = Reversed(pre)
       /\ allocd \cap Elems = Range(NodesOf(pre)) \cup held

ReverseOfFullList ==
    /\ op = "q_reverse" /\ op2 = "none" /\ ~fault
    /\ Len(pre) = MaxElems
    /\ pre[1].value # pre[MaxElems].value
    /\ Now[1] = pre[MaxElems]

\* C10: q_reverse applied twice gives back the order and the links of the list.
ReverseTwiceRestores ==
    (op = "q_reverse" /\ op2 = "q_reverse") =>
       /\ ~fault
       /\ Now = pre2
       /\ \A i \in 1..Len(pre2) :
             /\ next[pre2[i].node] = IF i = Len(pre2) THEN q ELSE pre2[i + 1].node
             /\ prev[pre2[i].node] = IF i = 1 THEN q ELSE pre2[i - 1].node
       /\ q # NULL =>
             /\ next[q] = IF pre2 = <<>> THEN q ELSE pre2[1].node
             /\ prev[q] = IF pre2 = <<>> THEN q ELSE pre2[Len(pre2)].node

ReverseTwiceOfFullList ==
    /\ op = "q_reverse" /\ op2 = "q_reverse" /\ ~fault
    /\ Len(pre2) = MaxElems
    /\ pre # pre2
    /\ Now = pre2

\* The sequence s with the members of each pair exchanged.
SwapPairs(s) ==
    [i \in 1..Len(s) |->
        IF i % 2 = 0 THEN s[i - 1]
        ELSE IF i + 1 <= Len(s) THEN s[i + 1] ELSE s[i]]

\* C11: q_swap exchanges the elements at 0-based positions 2i and 2i+1 for
\* every pair that exists and leaves an odd last element in place; it neither
\* allocates nor frees; applied twice to an even-length list it restores the
\* original order.
SwapExchangesPairs ==
    /\ op = "q_swap" =>
          /\ ~fault
          /\ Now = SwapPairs(pre)
          /\ allocd \cap Elems = Range(NodesOf(pre)) \cup held
    /\ (op = "q_swap" /\ op2 = "q_swap" /\ Len(pre2) % 2 = 0) => Now = pre2

SwapTwiceOfEvenList ==
    /\ op = "q_swap" /\ op2 = "q_swap" /\ ~fault
    /\ Len(pre2) >= 4 /\ Len(pre2) % 2 = 0
    /\ NodesOf(pre) = <<pre2[2].node, pre2[1].node, pre2[4].node, pre2[3].node>>
                         \o SubSeq(NodesOf(pre), 5, Len(pre))
    /\ Now = pre2

SwapOfOddList ==
    /\ op = "q_swap" /\ op2 = "none" /\ ~fault
    /\ Len(pre) = 3
    /\ NodesOf(Now) = <<pre[2].node, pre[1].node, pre[3].node>>

\* The inserts, and the calls of them that the code must refuse.
InsertCalls == {"q_insert_head", "q_insert_tail"}

InsertMustFail == q = NULL \/ arg[1] = NullStr \/ arg[2] \/ arg[3]

\* C12: an insert on an absent list, with a null payload, or whose element or
\* payload allocation fails returns false, leaves the list as it was and
\* leaves nothing allocated; any other insert returns true and links one new
\* element holding a copy of the payload first (q_insert_head) or last
\* (q_insert_tail), the other elements keeping their order.
InsertAllOrNothing ==
    op \in InsertCalls =>
       LET old == Range(NodesOf(pre)) \cup held IN
       /\ ~fault
       /\ \A e \in Elems \ allocd : value[e] = NullStr
       /\ IF InsertMustFail
          THEN /\ ret = FALSE
               /\ Now = pre
               /\ allocd \cap Elems = old
          ELSE /\ ret = TRUE
               /\ \E e \in Elems \ old :
                     LET new == [node |-> e, value |-> arg[1]] IN
                     /\ allocd \cap Elems = old \cup {e}
                     /\ Now = IF op = "q_insert_head" THEN <<new>> \o pre
                              ELSE pre \o <<new>>

InsertFailsOnPayloadAllocation ==
    /\ op = "q_insert_tail" /\ ~fault
    /\ arg[1] \in Str /\ ~arg[2] /\ arg[3]
    /\ Len(pre) >= 2
    /\ ret = FALSE
    /\ Now = pre

InsertHeadLinksFirst ==
    /\ op = "q_insert_head" /\ ~fault /\ ret = TRUE
    /\ Len(pre) >= 2
    /\ Now[1].value = arg[1]
    /\ Now[1].value # pre[1].value

\* C13: at every call boundary no call has read, relinked or freed a block
\* that was not allocated, the allocated elements are exactly those linked in
\* the list and those handed to the caller by a remove, no element is both,
\* a payload is allocated exactly when its element is, the sentinel is
\* allocated exactly while the list exists, and once the list is freed and the
\* removed elements are released nothing is allocated.
MemorySafe ==
    /\ ~fault
    /\ NoRepeat(Nodes(Heap, q))
    /\ allocd \cap Elems = Range(Nodes(Heap, q)) \cup held
    /\ Range(Nodes(Heap, q)) \cap held = {}
    /\ \A e \in Elems : (value[e] # NullStr) <=> (e \in allocd)
    /\ (Sentinel \in allocd) <=> (q # NULL)
    /\ (q = NULL /\ held = {}) => allocd = {}

\* The same for the calls of queue.c alone.
MemorySafeQueueC == op # "q_delete_dup_part000" => MemorySafe

\* The removes.
RemoveCalls == {"q_remove_head", "q_remove_tail"}

\* C14: on a non-empty list q_remove_head returns the first element and
\* q_remove_tail the last; the returned element is out of the list, still
\* allocated with its payload unchanged and now the caller's, and the other
\* elements stay linked in their order.
RemoveUnlinksWithoutDestroying ==
    (op \in RemoveCalls /\ Len(pre) >= 1) =>
       LET k == IF op = "q_remove_head" THEN 1 ELSE Len(pre) IN
       /\ ~fault
       /\ ret.ele = pre[k].node
       /\ Now = RemoveAt(pre, k)
       /\ ret.ele \in allocd
       /\ ret.ele \in held
       /\ value[ret.ele] = pre[k].value
       /\ value[ret.ele] # NullStr
       /\ allocd \cap Elems = Range(NodesOf(pre)) \cup held

RemoveHeadOfLongList ==
    /\ op = "q_remove_head" /\ ~fault
    /\ Len(pre) >= 3
    /\ pre[1].value # pre[2].value
    /\ ret.ele = pre[1].node
    /\ value[ret.ele] = pre[1].value
    /\ Len(Now) = Len(pre) - 1

\* The calls that have nothing to do on a list without elements.
QuietCalls ==
    RemoveCalls \cup {"q_delete_mid", "q_size", "q_delete_dup",
                      "q_delete_dup_part000", "q_swap", "q_reverse", "q_sort"}

\* C15: on an absent list (q = NULL) or an empty one, q_remove_head and
\* q_remove_tail return no element and write no buffer, q_delete_mid returns
\* false, q_size returns 0, q_delete_dup returns false for the absent list and
\* true for the empty one, and these calls as well as q_swap, q_reverse and
\* q_sort leave the list as it was: absent, or a sentinel linked to itself.
NothingToDoOnEmpty ==
    (op \in QuietCalls /\ pre = <<>>) =>
       /\ ~fault
       /\ Now = <<>>
       /\ q # NULL => (next[q] = q /\ prev[q] = q /\ q \in allocd)
       /\ q = NULL => Sentinel \notin allocd
       /\ allocd \cap Elems = held
       /\ op \in RemoveCalls => ret = [ele |-> NULL, sp |-> NullStr]
       /\ op = "q_delete_mid" => ret = FALSE
       /\ op = "q_size" => ret = 0
       /\ op \in DeleteDupCalls => ret = (q # NULL)

RemoveTailOfEmptyList ==
    /\ op = "q_remove_tail" /\ ~fault
    /\ q # NULL /\ pre = <<>>
    /\ ret.ele = NULL
    /\ next[q] = q

DeleteDupOfAbsentList ==
    /\ op = "q_delete_dup" /\ ~fault
    /\ q = NULL
    /\ ret = FALSE

\* The node k steps of next away from p.
RECURSIVE Follow(_, _, _)
Follow(nx, p, k) == IF k = 0 THEN p ELSE Follow(nx, nx[p], k - 1)

\* C16: in every state where the list exists, following next from the
\* sentinel exactly q_size(list) times arrives back at the sentinel.
SizeStepsReachSentinel ==
    (q # NULL /\ ~fault) => Follow(next, q, q_size(Heap, q).ret) = q

\* C16, as the code has it: q_size(list) + 1 steps of next from the sentinel
\* arrive back at the sentinel, and no smaller positive number of steps does:
\* q_size counts the steps from the first node, head->next, to the sentinel.
SizePlusOneStepsReachSentinel ==
    (q # NULL /\ ~fault) =>
       LET n == q_size(Heap, q).ret IN
       /\ Follow(next, q, n + 1) = q
       /\ \A k \in 1..n : Follow(next, q, k) # q
       /\ Follow(next, next[q], n) = q

SizeStepsEndOnLastElement ==
    /\ op = "q_size" /\ ~fault /\ q # NULL
    /\ ret >= 2
    /\ ret = q_size(Heap, q).ret
    /\ Follow(next, q, ret) = prev[q]
    /\ Follow(next, q, ret) # q
    /\ Follow(next, q, ret + 1) = q

\* C17: every split made during q_sort is given a chain of n >= 2 nodes and
\* cuts it into the first n \div 2 nodes and the remaining n - n \div 2, both
\* non-empty and together the chain given; the node slow->prev it cuts after
\* is the node of that chain whose next is slow.  A list of n >= 2 elements
\* is split n - 1 times.
SplitCutsAtMidpoint ==
    op = "q_sort" =>
       /\ ~fault
       /\ Len(pre) >= 2 => Len(splits) = Len(pre) - 1
       /\ \A i \in 1..Len(splits) :
             LET s == splits[i]
                 n == Len(s.chain) IN
             /\ n >= 2
             /\ NoRepeat(s.chain)
             /\ Range(s.chain) \subseteq Range(NodesOf(pre))
             /\ Len(s.left) = n \div 2
             /\ Len(s.right) = n - (n \div 2)
             /\ s.left # <<>> /\ s.right # <<>>
             /\ s.left \o s.right = s.chain
             /\ s.pv = s.chain[n \div 2]
             /\ s.mid = s.chain[(n \div 2) + 1]

\* A split of the right half made after the merge of the left half has
\* reordered it, so that a prev pointer of the left half is stale.
SplitAfterReorderingMerge ==
    /\ op = "q_sort" /\ ~fault
    /\ Len(pre) = 4 /\ Len(splits) = 3
    /\ LexLess(pre[2].value, pre[1].value)
    /\ splits[2].chain = <<pre[1].node, pre[2].node>>
    /\ splits[3].chain = <<pre[3].node, pre[4].node>>
    /\ splits[3].pv = pre[3].node
    /\ Now[1].node # pre[1].node

\* The functions of queue.c.
QueueCCalls ==
    InsertCalls \cup RemoveCalls \cup
    {"q_new", "q_free", "q_release_element", "q_size", "q_delete_mid",
     "q_delete_dup", "q_swap", "q_reverse", "q_sort"}

\* C18: every call of queue.c on a well-formed list returns: none of its
\* loops, and no recursion of __q_sort, is still running after Fuel turns
\* (more than a walk over the largest list takes), and none is cut short by
\* an undefined access.
EveryCallReturns == op \in QueueCCalls => (~hung /\ ~fault)

SwapReturnsOnOddList ==
    /\ op = "q_swap" /\ ~hung /\ ~fault
    /\ Len(pre) = 3
    /\ NodesOf(Now) # NodesOf(pre)

SortReturnsOnFullList ==
    /\ op = "q_sort" /\ ~hung /\ ~fault
    /\ Len(pre) = MaxLen
    /\ Len(splits) = MaxLen - 1

\* The q_delete_dup of part_000 on a sorted list: it can fail to return.
DeleteDupPart000Returns ==
    (op = "q_delete_dup_part000" /\ NonDecreasing(pre)) => ~hung

\* Whether every element in the list was inserted at end e; the place of x in
\* the order of arrival; and a remove by call, at a time when all were
\* inserted at e, taking the element at place k of that order.
AllInsertedAt(e) == \A i \in 1..Len(order) : order[i].end = e

Arrival(x) == CHOOSE i \in 1..Len(order) : order[i].node = x

RemoveTakes(call, e, k) ==
    (op' = call /\ ret'.ele # NULL /\ AllInsertedAt(e)) =>
       /\ \E i \in 1..Len(order) : order[i].node = ret'.ele
       /\ Arrival(ret'.ele) = k

\* C19: when every element in the list was inserted by q_insert_tail, a
\* q_remove_head returns the one inserted earliest and a q_remove_tail the
\* one inserted latest; when every element was inserted by q_insert_head, a
\* q_remove_tail returns the earliest and a q_remove_head the latest.
FifoAndLifo ==
    [][/\ RemoveTakes("q_remove_head", "tail", 1)
       /\ RemoveTakes("q_remove_tail", "head", 1)
       /\ RemoveTakes("q_remove_head", "head", Len(order))
       /\ RemoveTakes("q_remove_tail", "tail", Len(order))]_vars

\* The earliest of three elements inserted at the tail has left by the head.
EarliestLeftFirst ==
    /\ op = "q_remove_head" /\ ~fault
    /\ Len(pre) >= 3
    /\ ret.ele = pre[1].node
    /\ AllInsertedAt("tail")
    /\ [i \in 1..Len(order) |-> order[i].node] = Tail(NodesOf(pre))

\* The payloads of a list, the result of queue.c's q_delete_dup on the list
\* the call was made on, and the state after the call being that result.
PayloadsOf(c) == [i \in 1..Len(c) |-> c[i].value]

QueueCDeleteDup == q_delete_dup(Build(PayloadsOf(pre), Len(pre)), Sentinel)

RevisionsAgree ==
    /\ ~fault
    /\ ret = QueueCDeleteDup.ret
    /\ Now = Contents(QueueCDeleteDup.h, Sentinel)
    /\ allocd = QueueCDeleteDup.h.allocd
    /\ next[q] = QueueCDeleteDup.h.next[Sentinel]
    /\ prev[q] = QueueCDeleteDup.h.prev[Sentinel]

\* C20: on every list sorted ascending, the q_delete_dup of part_000 leaves
\* what the q_delete_dup of queue.c leaves: the same return value, the same
\* elements linked in the same order, the same blocks allocated, and the
\* sentinel linked as queue.c links it, with no undefined access.
DeleteDupRevisionsAgree ==
    (op = "q_delete_dup_part000" /\ q # NULL /\ NonDecreasing(pre)) =>
       RevisionsAgree

\* The two agree on the sorted lists whose first payload is not empty.
DeleteDupRevisionsAgreeUnlessEmptyFirst ==
    (/\ op = "q_delete_dup_part000" /\ q # NULL /\ NonDecreasing(pre)
     /\ (pre # <<>> => pre[1].value # <<>>)) =>
       RevisionsAgree

DeleteDupRevisionsOnRuns ==
    /\ op = "q_delete_dup_part000" /\ q # NULL /\ NonDecreasing(pre)
    /\ Len(pre) = MaxLen
    /\ pre[1].value # <<>>
    /\ pre[1].value = pre[2].value
    /\ Now = <<pre[MaxLen]>>
    /\ RevisionsAgree

====
